---- MODULE Spec2Model ----
(***************************************************************************)
(* A model of the storefront in src/app.py: the SQLite store (users,       *)
(* products, orders, order_items), the Flask session (user_id, is_admin,   *)
(* cart) and the request handlers that read and write them.                *)
(*                                                                         *)
(* Money is kept in hundredths (12.50 is 1250): the REAL columns and the   *)
(* Python floats of the source are modelled as exact decimals.             *)
(* created_at, the product images and the text columns that no handler     *)
(* branches on are left out of the rows.                                   *)
(***************************************************************************)
EXTENDS Integers, Sequences, FiniteSets, TLC

(* ------------------------------ bounds -------------------------------- *)

\* the largest quantity one cart entry may reach (add_to_cart is guarded)
MaxQty == 2
\* the number of product rows admin_add_product may create
MaxProducts == 2
\* the number of order rows the one-request checkout may create
MaxOrders == 1
\* the number of order rows the statement-by-statement checkouts may create
MaxTxOrders == 2
\* the stock of the product the two racing sessions buy
InitStock == 1

(* ------------------------- program constants --------------------------- *)

\* "shipping = 0 if subtotal >= 100 else 12.50"
FREE_SHIPPING_FROM == 10000
SHIPPING_FEE == 1250

Sessions == {"s1", "s2"}

\* request.form.get(...) of a field the form does not carry
None == "<None>"

\* no template was rendered, so no cart_count was computed
NoCount == 0 - 1

(* ------------------------------ helpers -------------------------------- *)

EmptyDict == [k \in {} |-> 0]

Has(d, k) == k \in DOMAIN d

\* dict.get(k, default)
Get(d, k, default) == IF k \in DOMAIN d THEN d[k] ELSE default

\* d[k] = v
Put(d, k, v) == [x \in (DOMAIN d) \cup {k} |-> IF x = k THEN v ELSE d[x]]

\* d.pop(k, None)
Pop(d, k) == [x \in (DOMAIN d) \ {k} |-> d[x]]

Max(a, b) == IF a >= b THEN a ELSE b

\* Python truthiness of a form field: None and "" are falsy
Falsy(x) == x \in {None, ""}

\* str(n) of a product id, and int(s) of a cart key
StrTab == <<"1", "2", "3", "4", "5", "6", "7", "8", "9">>
Str(n) == StrTab[n]
IntOfKey(s) == CHOOSE n \in 1..Len(StrTab) : StrTab[n] = s

\* int(text): the literals the requests of this model send
IntLit == [t \in {"-1", "0", "1", "2", "3"} |->
             CASE t = "-1" -> 0 - 1
               [] t = "0" -> 0
               [] t = "1" -> 1
               [] t = "2" -> 2
               [] t = "3" -> 3]
IsInt(t) == t \in DOMAIN IntLit
IntOf(t) == IntLit[t]

\* float(text), in hundredths
FloatLit == [t \in {"25.00", "50.00", "-5.00"} |->
               CASE t = "25.00" -> 2500
                 [] t = "50.00" -> 5000
                 [] t = "-5.00" -> 0 - 500]
IsFloat(t) == t \in DOMAIN FloatLit
FloatOf(t) == FloatLit[t]

\* generate_password_hash / check_password_hash
generate_password_hash(p) == <<"hash", p>>
check_password_hash(h, p) == h = generate_password_hash(p)

RECURSIVE SumSeq(_)
SumSeq(s) == IF s = <<>> THEN 0 ELSE Head(s) + SumSeq(Tail(s))

RECURSIVE SumSet(_, _)
SumSet(S, f) == IF S = {} THEN 0
                ELSE LET x == CHOOSE y \in S : TRUE
                     IN f[x] + SumSet(S \ {x}, f)

(* ------------------------------- state --------------------------------- *)

VARIABLES
  users,        \* table users: <<[username, password_hash]>>, id = index
  products,     \* table products: <<[name, category, price, stock, listed]>>
  orders,       \* table orders: <<[customer_name, ..., total, paid]>>
  order_items,  \* table order_items: <<[order_id, product_id, quantity, price]>>
  session,      \* per browser: the Flask session dict
  resp,         \* the last response: who, which view, status, target
  pc,           \* per browser: where its running checkout request stands
  loc,          \* per browser: the locals of its running checkout request
  tx            \* the open write transaction: its connection and its view

vars == <<users, products, orders, order_items, session, resp, pc, loc, tx>>

store == [products |-> products, orders |-> orders, order_items |-> order_items]

NoTx == [owner |-> "none", db |-> [products |-> <<>>, orders |-> <<>>,
                                   order_items |-> <<>>]]
NoLoc == [order_items |-> <<>>, total |-> 0, form |-> <<>>, i |-> 0]

(* ----------------------------- responses ------------------------------- *)

redirect(s, view, to) ==
  [sid |-> s, view |-> view, code |-> 302, to |-> to, cart_count |-> NoCount]

error500(s, view, what) ==
  [sid |-> s, view |-> view, code |-> 500, to |-> what, cart_count |-> NoCount]

\* item["quantity"] raises TypeError unless item is a mapping
Subscriptable(item) == ~(item \in Int)

\* inject_cart: sum(item["quantity"] for item in cart.values())
inject_cart(sess) ==
  LET cart == Get(sess, "cart", EmptyDict)
  IN IF \A k \in DOMAIN cart : Subscriptable(cart[k])
       THEN [ok |-> TRUE,
             cart_count |-> SumSet(DOMAIN cart,
                                   [k \in DOMAIN cart |-> cart[k]["quantity"]])]
       ELSE [ok |-> FALSE, cart_count |-> NoCount]

\* render_template: the context processor runs for every rendered page
render_template(s, sess, view, template) ==
  LET ctx == inject_cart(sess)
  IN IF ctx.ok
       THEN [sid |-> s, view |-> view, code |-> 200, to |-> template,
             cart_count |-> ctx.cart_count]
       ELSE error500(s, view, "TypeError")

\* (a plausible slip: the key is looked for, its value is not)
IsAdminKeyOnly(sess) == Has(sess, "is_admin")

\* login_required / admin_required
LoggedIn(sess) == Has(sess, "user_id")
IsAdmin(sess) == Has(sess, "is_admin") /\ sess["is_admin"] = TRUE

(* ------------------------------ identity ------------------------------- *)

UserIdOf(u) == IF \E i \in 1..Len(users) : users[i].username = u
                 THEN CHOOSE i \in 1..Len(users) : users[i].username = u
                 ELSE 0

register(s, username, password) ==
  /\ pc[s] = "idle"
  /\ IF Falsy(username) \/ Falsy(password)
       THEN /\ resp' = render_template(s, session[s], "register", "register.html")
            /\ UNCHANGED users
       ELSE IF UserIdOf(username) # 0
         THEN \* sqlite3.IntegrityError: UNIQUE(username)
              /\ resp' = render_template(s, session[s], "register", "register.html")
              /\ UNCHANGED users
         ELSE /\ users' = Append(users,
                    [username |-> username,
                     password_hash |-> generate_password_hash(password)])
              /\ resp' = redirect(s, "register", "login")
  /\ UNCHANGED <<products, orders, order_items, session, pc, loc, tx>>

login(s, username, password) ==
  /\ pc[s] = "idle"
  /\ LET uid == UserIdOf(username)
     IN IF uid # 0 /\ check_password_hash(users[uid].password_hash, password)
          THEN /\ session' = [session EXCEPT ![s] =
                     Put(Put(@, "user_id", uid), "is_admin", FALSE)]
               /\ resp' = redirect(s, "login", "index")
          ELSE /\ resp' = render_template(s, session[s], "login", "login.html")
               /\ UNCHANGED session
  /\ UNCHANGED <<users, products, orders, order_items, pc, loc, tx>>

logout(s) ==
  /\ pc[s] = "idle"
  /\ session' = [session EXCEPT ![s] = EmptyDict]
  /\ resp' = redirect(s, "logout", "index")
  /\ UNCHANGED <<users, products, orders, order_items, pc, loc, tx>>

\* config.get("admin", ..., fallback="admin")
admin_user == "admin"
admin_password == "admin"

admin_login(s, username, password) ==
  /\ pc[s] = "idle"
  /\ IF username = admin_user /\ password = admin_password
       THEN /\ session' = [session EXCEPT ![s] = Put(@, "is_admin", TRUE)]
            /\ resp' = redirect(s, "admin_login", "admin_dashboard")
       ELSE /\ resp' = render_template(s, session[s], "admin_login",
                                       "admin_login.html")
            /\ UNCHANGED session
  /\ UNCHANGED <<users, products, orders, order_items, pc, loc, tx>>

(* ------------------------------- admin --------------------------------- *)

admin_dashboard(s) ==
  /\ pc[s] = "idle"
  /\ resp' = IF ~IsAdmin(session[s])
               THEN redirect(s, "admin_dashboard", "admin_login")
               ELSE render_template(s, session[s], "admin_dashboard",
                                    "admin_dashboard.html")
  /\ UNCHANGED <<users, products, orders, order_items, session, pc, loc, tx>>

admin_new_product(s) ==
  /\ pc[s] = "idle"
  /\ resp' = IF ~IsAdmin(session[s])
               THEN redirect(s, "admin_new_product", "admin_login")
               ELSE render_template(s, session[s], "admin_new_product",
                                    "admin_add_product.html")
  /\ UNCHANGED <<users, products, orders, order_items, session, pc, loc, tx>>

admin_add_product(s, name, category, price, stock) ==
  /\ pc[s] = "idle"
  /\ IF ~IsAdmin(session[s])
       THEN /\ resp' = redirect(s, "admin_add_product", "admin_login")
            /\ UNCHANGED products
       ELSE IF Falsy(name) \/ Falsy(category) \/ Falsy(price) \/ Falsy(stock)
         THEN /\ resp' = redirect(s, "admin_add_product", "admin_new_product")
              /\ UNCHANGED products
         ELSE IF ~IsFloat(price) \/ ~IsInt(stock)
           THEN /\ resp' = error500(s, "admin_add_product", "ValueError")
                /\ UNCHANGED products
           ELSE /\ tx.owner = "none"
                /\ Len(products) < MaxProducts
                /\ products' = Append(products,
                      [name |-> name, category |-> category,
                       price |-> FloatOf(price), stock |-> IntOf(stock),
                       listed |-> 0])
                /\ resp' = redirect(s, "admin_add_product", "admin_dashboard")
  /\ UNCHANGED <<users, orders, order_items, session, pc, loc, tx>>

admin_update_stock(s, product_id, stock, price) ==
  /\ pc[s] = "idle"
  /\ IF ~IsAdmin(session[s])
       THEN /\ resp' = redirect(s, "admin_update_stock", "admin_login")
            /\ UNCHANGED products
       ELSE IF ~IsInt(stock) \/ ~IsFloat(price)
         THEN /\ resp' = error500(s, "admin_update_stock", "ValueError")
              /\ UNCHANGED products
         ELSE /\ tx.owner = "none"
              /\ products' = [i \in DOMAIN products |->
                    IF i = product_id
                      THEN [products[i] EXCEPT !.stock = IntOf(stock),
                                               !.price = FloatOf(price)]
                      ELSE products[i]]
              /\ resp' = redirect(s, "admin_update_stock", "admin_dashboard")
  /\ UNCHANGED <<users, orders, order_items, session, pc, loc, tx>>

admin_toggle_listing(s, product_id) ==
  /\ pc[s] = "idle"
  /\ IF ~IsAdmin(session[s])
       THEN /\ resp' = redirect(s, "admin_toggle_listing", "admin_login")
            /\ UNCHANGED products
       ELSE /\ tx.owner = "none"
            /\ products' = [i \in DOMAIN products |->
                  IF i = product_id
                    THEN [products[i] EXCEPT
                            !.listed = IF products[i].listed # 0 THEN 0 ELSE 1]
                    ELSE products[i]]
            /\ resp' = redirect(s, "admin_toggle_listing", "admin_dashboard")
  /\ UNCHANGED <<users, orders, order_items, session, pc, loc, tx>>

(* -------------------------------- cart --------------------------------- *)

Cart(sess) == Get(sess, "cart", EmptyDict)

\* request.form.get(key, default)
FormGet(value, default) == IF value = None THEN default ELSE value

\* int(request.form.get("quantity", 1)), 1 on TypeError / ValueError
requested_qty(quantity) ==
  LET raw == FormGet(quantity, "1")
  IN IF IsInt(raw) THEN IntOf(raw) ELSE 1

\* (a plausible slip: the requested quantity is added as parsed)
AddedQtyUnclamped(current_qty, quantity) == current_qty + requested_qty(quantity)

\* the quantity add_to_cart stores for the product
AddedQty(current_qty, quantity) == current_qty + Max(requested_qty(quantity), 1)

add_to_cart(s, product_id, quantity) ==
  /\ pc[s] = "idle"
  /\ LET cart_items == Cart(session[s])
         current_qty == Get(cart_items, Str(product_id), 0)
         new_qty == AddedQty(current_qty, quantity)
     IN /\ new_qty <= MaxQty
        /\ session' = [session EXCEPT ![s] =
              Put(@, "cart", Put(cart_items, Str(product_id), new_qty))]
  /\ resp' = redirect(s, "add_to_cart", "cart")
  /\ UNCHANGED <<users, products, orders, order_items, pc, loc, tx>>

remove_from_cart(s, product_id) ==
  /\ pc[s] = "idle"
  /\ session' = [session EXCEPT ![s] =
        Put(@, "cart", Pop(Cart(@), Str(product_id)))]
  /\ resp' = redirect(s, "remove_from_cart", "cart")
  /\ UNCHANGED <<users, products, orders, order_items, pc, loc, tx>>

\* SELECT * FROM products WHERE id IN (ids): the ids found, in rowid order
SelectIds(prods, cart_items) ==
  LET ids == {IntOfKey(k) : k \in DOMAIN cart_items}
  IN SelectSeq([i \in 1..Len(prods) |-> i], LAMBDA i : i \in ids)

\* GET /cart: the page every add and remove redirects to
cart(s) ==
  /\ pc[s] = "idle"
  /\ resp' = render_template(s, session[s], "cart", "cart.html")
  /\ UNCHANGED <<users, products, orders, order_items, session, pc, loc, tx>>

(* ------------------------------ checkout ------------------------------- *)

\* the (product_id, quantity, price) list built from the selected rows
OrderLines(prods, cart_items) ==
  LET rows == SelectIds(prods, cart_items)
  IN [k \in 1..Len(rows) |->
        [product_id |-> rows[k],
         quantity |-> cart_items[Str(rows[k])],
         price |-> prods[rows[k]].price]]

Subtotal(lines) ==
  SumSeq([k \in 1..Len(lines) |-> lines[k].price * lines[k].quantity])

\* (a plausible slip: a strict comparison)
ShippingStrict(subtotal) ==
  IF subtotal > FREE_SHIPPING_FROM THEN 0 ELSE SHIPPING_FEE

\* "shipping = 0 if subtotal >= 100 else 12.50"
Shipping(subtotal) == IF subtotal >= FREE_SHIPPING_FROM THEN 0 ELSE SHIPPING_FEE

Total(lines) == Subtotal(lines) + Shipping(Subtotal(lines))

\* INSERT INTO orders (...) VALUES (..., total, 1, now)
InsertOrder(db, form, total) ==
  [db EXCEPT !.orders = Append(@,
     [customer_name |-> form.customer_name,
      customer_address |-> form.customer_address,
      stripe_payment_id |-> form.payment_ref,
      total |-> total, paid |-> 1])]

\* INSERT INTO order_items (order_id, product_id, quantity, price)
InsertOrderItem(db, order_id, line) ==
  [db EXCEPT !.order_items = Append(@,
     [order_id |-> order_id, product_id |-> line.product_id,
      quantity |-> line.quantity, price |-> line.price])]

\* (a plausible slip: no floor)
StockAfterNoFloor(stock, quantity) == stock - quantity

\* "stock = MAX(stock - ?, 0)"
StockAfter(stock, quantity) == Max(stock - quantity, 0)

\* (a plausible slip: the WHERE clause is missing)
UpdateStockEveryRow(db, product_id, quantity) ==
  [db EXCEPT !.products = [i \in DOMAIN db.products |->
     [db.products[i] EXCEPT
        !.stock = Max(db.products[i].stock - quantity, 0)]]]

\* UPDATE products SET stock = MAX(stock - ?, 0) WHERE id = ?
UpdateStock(db, product_id, quantity) ==
  [db EXCEPT !.products = [i \in DOMAIN db.products |->
     IF i = product_id
       THEN [db.products[i] EXCEPT
               !.stock = StockAfter(db.products[i].stock, quantity)]
       ELSE db.products[i]]]

\* the loop over order_items: one insert and one stock update per line
RECURSIVE WriteLines(_, _, _, _)
WriteLines(db, order_id, lines, k) ==
  IF k > Len(lines) THEN db
  ELSE WriteLines(
         UpdateStock(InsertOrderItem(db, order_id, lines[k]),
                     lines[k].product_id, lines[k].quantity),
         order_id, lines, k + 1)

\* (a plausible slip: the payment reference is not required)
CheckoutVerdictNoRef(sess, form) ==
  IF ~LoggedIn(sess) THEN "login"
  ELSE IF Cart(sess) = EmptyDict THEN "empty"
  ELSE IF Falsy(form.customer_name) \/ Falsy(form.customer_address)
    THEN "incomplete"
  ELSE "ok"

\* why checkout turns a request away, or "ok"
CheckoutVerdict(sess, form) ==
  IF ~LoggedIn(sess) THEN "login"
  ELSE IF Cart(sess) = EmptyDict THEN "empty"
  ELSE IF Falsy(form.customer_name) \/ Falsy(form.customer_address)
          \/ Falsy(form.payment_ref) THEN "incomplete"
  ELSE "ok"

\* POST /checkout as one request that nothing interleaves with
checkout(s, form) ==
  /\ pc[s] = "idle"
  /\ LET verdict == CheckoutVerdict(session[s], form)
         lines == OrderLines(products, Cart(session[s]))
         db1 == InsertOrder(store, form, Total(lines))
         db2 == WriteLines(db1, Len(db1.orders), lines, 1)
     IN CASE verdict = "login" ->
               /\ resp' = redirect(s, "checkout", "login")
               /\ UNCHANGED <<products, orders, order_items, session>>
          [] verdict \in {"empty", "incomplete"} ->
               /\ resp' = redirect(s, "checkout", "cart")
               /\ UNCHANGED <<products, orders, order_items, session>>
          [] verdict = "ok" ->
               /\ tx.owner = "none"
               /\ Len(orders) < MaxOrders
               /\ products' = db2.products
               /\ orders' = db2.orders
               /\ order_items' = db2.order_items
               /\ session' = [session EXCEPT ![s] = Put(@, "cart", EmptyDict)]
               /\ resp' = redirect(s, "checkout", "index")
  /\ UNCHANGED <<users, pc, loc, tx>>

(* ------------------- checkout, statement by statement ------------------ *)

\* (a plausible slip: isolation_level=None, every statement commits)
VisibleAutocommit(committed, working) == working

\* sqlite3.connect with the default isolation_level: a data-changing
\* statement opens a transaction, and the committed store keeps its value
\* until conn.commit()
VisibleAfterStatement(committed, working) == committed

SetStore(db) ==
  /\ products' = db.products
  /\ orders' = db.orders
  /\ order_items' = db.order_items

InFlight == {t \in Sessions : pc[t] # "idle"}

\* the decorator, the two early returns and the SELECT
checkout_begin(s, form) ==
  /\ pc[s] = "idle"
  /\ LET verdict == CheckoutVerdict(session[s], form)
         lines == OrderLines(products, Cart(session[s]))
     IN CASE verdict = "login" ->
               /\ resp' = redirect(s, "checkout", "login")
               /\ UNCHANGED <<pc, loc>>
          [] verdict \in {"empty", "incomplete"} ->
               /\ resp' = redirect(s, "checkout", "cart")
               /\ UNCHANGED <<pc, loc>>
          [] verdict = "ok" ->
               /\ Len(orders) + Cardinality(InFlight) < MaxTxOrders
               /\ pc' = [pc EXCEPT ![s] = "insert_order"]
               /\ loc' = [loc EXCEPT ![s] =
                     [order_items |-> lines, total |-> Total(lines),
                      form |-> form, i |-> 1]]
               /\ UNCHANGED resp
  /\ UNCHANGED <<users, products, orders, order_items, session, tx>>

\* cursor.execute(INSERT INTO orders ...): takes the write lock, which a
\* second connection waits for
checkout_insert_order(s) ==
  /\ pc[s] = "insert_order"
  /\ tx.owner = "none"
  /\ LET db == InsertOrder(store, loc[s].form, loc[s].total)
     IN /\ tx' = [owner |-> s, db |-> db]
        /\ SetStore(VisibleAfterStatement(store, db))
  /\ pc' = [pc EXCEPT ![s] =
        IF loc[s].order_items = <<>> THEN "commit" ELSE "insert_item"]
  /\ UNCHANGED <<users, session, resp, loc>>

\* cursor.execute(INSERT INTO order_items ...) of line i
checkout_insert_item(s) ==
  /\ pc[s] = "insert_item"
  /\ tx.owner = s
  /\ LET db == InsertOrderItem(tx.db, Len(tx.db.orders),
                               loc[s].order_items[loc[s].i])
     IN /\ tx' = [tx EXCEPT !.db = db]
        /\ SetStore(VisibleAfterStatement(store, db))
  /\ pc' = [pc EXCEPT ![s] = "update_stock"]
  /\ UNCHANGED <<users, session, resp, loc>>

\* cursor.execute(UPDATE products SET stock ...) of line i
checkout_update_stock(s) ==
  /\ pc[s] = "update_stock"
  /\ tx.owner = s
  /\ LET line == loc[s].order_items[loc[s].i]
         db == UpdateStock(tx.db, line.product_id, line.quantity)
     IN /\ tx' = [tx EXCEPT !.db = db]
        /\ SetStore(VisibleAfterStatement(store, db))
  /\ pc' = [pc EXCEPT ![s] =
        IF loc[s].i = Len(loc[s].order_items) THEN "commit" ELSE "insert_item"]
  /\ loc' = [loc EXCEPT ![s].i = @ + 1]
  /\ UNCHANGED <<users, session, resp>>

\* conn.commit(), conn.close(), session["cart"] = {}, redirect
checkout_commit(s) ==
  /\ pc[s] = "commit"
  /\ tx.owner = s
  /\ SetStore(tx.db)
  /\ tx' = NoTx
  /\ session' = [session EXCEPT ![s] = Put(@, "cart", EmptyDict)]
  /\ resp' = redirect(s, "checkout", "index")
  /\ pc' = [pc EXCEPT ![s] = "idle"]
  /\ loc' = [loc EXCEPT ![s] = NoLoc]
  /\ UNCHANGED users

\* an exception leaves the handler before conn.commit(): the connection is
\* dropped with its transaction open, which rolls it back
checkout_fail(s) ==
  /\ pc[s] # "idle"
  /\ tx' = IF tx.owner = s THEN NoTx ELSE tx
  /\ resp' = error500(s, "checkout", pc[s])
  /\ pc' = [pc EXCEPT ![s] = "idle"]
  /\ loc' = [loc EXCEPT ![s] = NoLoc]
  /\ UNCHANGED <<users, products, orders, order_items, session>>

(* --------------------------- specifications ---------------------------- *)

NoResp == [sid |-> "s1", view |-> "none", code |-> 0, to |-> "none",
           cart_count |-> NoCount]

\* the store init_db creates and browsers that have sent nothing yet
Init ==
  /\ users = <<>>
  /\ products = <<>>
  /\ orders = <<>>
  /\ order_items = <<>>
  /\ session = [s \in Sessions |-> EmptyDict]
  /\ resp = NoResp
  /\ pc = [s \in Sessions |-> "idle"]
  /\ loc = [s \in Sessions |-> NoLoc]
  /\ tx = NoTx

\* identity and the admin surface, from the empty store
Next ==
  \/ \E u \in {"", "alice"}, p \in {None, "pw"} : register("s1", u, p)
  \/ \E u \in {"alice"}, p \in {"pw", "bad"} : login("s1", u, p)
  \/ logout("s1")
  \/ \E u \in {"admin"}, p \in {"admin", "bad"} : admin_login("s1", u, p)
  \/ \E s \in Sessions :
    \/ admin_dashboard(s)
    \/ admin_new_product(s)
    \/ \E n \in {"", "Mug"}, pr \in {None, "25.00", "abc"},
          st \in {"-1", "1", "x"} : admin_add_product(s, n, "Home", pr, st)
    \/ \E i \in 1..(MaxProducts + 1), st \in {None, "-1", "2"},
          pr \in {"50.00"} : admin_update_stock(s, i, st, pr)
    \/ \E i \in 1..(MaxProducts + 1) : admin_toggle_listing(s, i)

Spec == Init /\ [][Next]_vars

\* a catalogue an administrator has created and listed, a registered
\* customer, and an administrator logged in from a second browser
Product(price, stock) ==
  [name |-> "Mug", category |-> "Home", price |-> price, stock |-> stock,
   listed |-> 1]

Alice == [username |-> "alice", password_hash |-> generate_password_hash("pw")]

InitShop ==
  /\ users = <<Alice>>
  /\ products = <<Product(5000, 2), Product(2500, 1)>>
  /\ orders = <<>>
  /\ order_items = <<>>
  /\ session = [s \in Sessions |->
        IF s = "s2" THEN Put(EmptyDict, "is_admin", TRUE) ELSE EmptyDict]
  /\ resp = NoResp
  /\ pc = [s \in Sessions |-> "idle"]
  /\ loc = [s \in Sessions |-> NoLoc]
  /\ tx = NoTx

Forms ==
  [customer_name : {None, "Ann"}, customer_address : {"", "1 Rue"},
   payment_ref : {None, "pi_1"}]

GoodForm ==
  [customer_name |-> "Ann", customer_address |-> "1 Rue", payment_ref |-> "pi_1"]

QtyInputs == {None, "1", "2", "0", "-1", "abc"}

\* two browsers filling and emptying their carts, from the first request on
NextCart ==
  \E s \in Sessions :
    \/ \E i \in 1..3, q \in QtyInputs : add_to_cart(s, i, q)
    \/ \E i \in 1..3 : remove_from_cart(s, i)
    \/ cart(s)
    \/ logout(s)

SpecCart == Init /\ [][NextCart]_vars

NextShop ==
  \/ \E p \in {"pw", "bad"} : login("s1", "alice", p)
  \/ logout("s1")
  \/ \E i \in 1..3, q \in {"1", "2", "abc"} : add_to_cart("s1", i, q)
  \/ \E i \in 1..3 : remove_from_cart("s1", i)
  \/ cart("s1")
  \/ \E f \in Forms : checkout("s1", f)

SpecShop == InitShop /\ [][NextShop]_vars

\* the same shop while the administrator edits price and stock
NextPrice ==
  \/ login("s1", "alice", "pw")
  \/ \E i \in 1..2, q \in {"1", "2"} : add_to_cart("s1", i, q)
  \/ checkout("s1", GoodForm)
  \/ \E i \in 1..2, pr \in {"25.00", "50.00"} :
        admin_update_stock("s2", i, "2", pr)

SpecPrice == InitShop /\ [][NextPrice]_vars

\* two browsers of the same customer, each with its own connection
InitTx ==
  /\ users = <<Alice>>
  /\ products = <<Product(5000, InitStock), Product(2500, InitStock)>>
  /\ orders = <<>>
  /\ order_items = <<>>
  /\ session = [s \in Sessions |->
        Put(Put(EmptyDict, "user_id", 1), "is_admin", FALSE)]
  /\ resp = NoResp
  /\ pc = [s \in Sessions |-> "idle"]
  /\ loc = [s \in Sessions |-> NoLoc]
  /\ tx = NoTx

CheckoutStep(s) ==
  \/ checkout_begin(s, GoodForm)
  \/ checkout_insert_order(s)
  \/ checkout_insert_item(s)
  \/ checkout_update_stock(s)
  \/ checkout_commit(s)

\* both browsers buy product 1 and their requests interleave
NextRace ==
  \E s \in Sessions :
    \/ \E q \in {"1", "2"} : add_to_cart(s, 1, q)
    \/ CheckoutStep(s)

SpecRace == InitTx /\ [][NextRace]_vars

\* one browser checks out both products and any statement may raise
NextTx ==
  \/ \E i \in 1..2, q \in {"1", "2"} : add_to_cart("s1", i, q)
  \/ \E q \in {"1", "2"} : add_to_cart("s2", 1, q)
  \/ \E s \in Sessions : CheckoutStep(s) \/ checkout_fail(s)

SpecTx == InitTx /\ [][NextTx]_vars

(* ------------------------------- claims -------------------------------- *)

\* what the claims read off a state, stated from the tables and the session

CartOf(s) == IF "cart" \in DOMAIN session[s] THEN session[s]["cart"] ELSE EmptyDict

CartQtySum(c) == SumSet(DOMAIN c, c)

ItemsOf(o) == {k \in 1..Len(order_items) : order_items[k].order_id = o}

ItemsSum(o) ==
  SumSet(ItemsOf(o),
         [k \in ItemsOf(o) |-> order_items[k].price * order_items[k].quantity])

SoldOf(i) ==
  LET ks == {k \in 1..Len(order_items) : order_items[k].product_id = i}
  IN SumSet(ks, [k \in ks |-> order_items[k].quantity])

Present(x) == x # None /\ x # ""

AdminFlag(sess) == "is_admin" \in DOMAIN sess /\ sess["is_admin"] = TRUE

AdminViews ==
  {"admin_dashboard", "admin_new_product", "admin_add_product",
   "admin_update_stock", "admin_toggle_listing"}

\* C1: a checkout by a logged-in customer with the three fields filled in and
\* a non-empty cart appends one paid order, appends one order item per cart
\* entry whose product exists (the entry's quantity, the product's price),
\* sets each such product's stock to max(stock - quantity, 0), leaves the
\* other products as they were and leaves the cart empty.
C1_Accepted(f) ==
  /\ "user_id" \in DOMAIN session["s1"]
  /\ CartOf("s1") # EmptyDict
  /\ Present(f.customer_name)
  /\ Present(f.customer_address)
  /\ Present(f.payment_ref)

C1_Recorded ==
  LET c == CartOf("s1")
      bought == {i \in 1..Len(products) : Str(i) \in DOMAIN c}
      new == {k \in 1..Len(order_items') : k > Len(order_items)}
  IN /\ Len(orders') = Len(orders) + 1
     /\ SubSeq(orders', 1, Len(orders)) = orders
     /\ orders'[Len(orders')].paid = 1
     /\ SubSeq(order_items', 1, Len(order_items)) = order_items
     /\ Cardinality(new) = Cardinality(bought)
     /\ \A i \in bought : \E k \in new :
          order_items'[k] = [order_id |-> Len(orders'), product_id |-> i,
                             quantity |-> c[Str(i)], price |-> products[i].price]
     /\ Len(products') = Len(products)
     /\ \A i \in bought :
          products'[i] = [products[i] EXCEPT
             !.stock = IF products[i].stock - c[Str(i)] > 0
                         THEN products[i].stock - c[Str(i)] ELSE 0]
     /\ \A i \in (1..Len(products)) \ bought : products'[i] = products[i]
     /\ CartOf("s1")' = EmptyDict

C1_CheckoutRecordsOrder ==
  [][\A f \in Forms :
       (resp'.view = "checkout" /\ C1_Accepted(f) /\ checkout("s1", f))
         => C1_Recorded]_vars

\* C1 witness: a checkout has recorded an order of two lines and has floored
\* the stock of the product bought beyond its stock
C1_Witness ==
  /\ resp.view = "checkout" /\ resp.to = "index"
  /\ Len(orders) = 1
  /\ Cardinality(ItemsOf(1)) = 2
  /\ \E k \in ItemsOf(1) :
       order_items[k].product_id = 2 /\ order_items[k].quantity = 2
  /\ products[2].stock = 0
  /\ CartOf("s1") = EmptyDict

\* C2: every order's total is the sum over its items of captured price times
\* quantity, plus shipping (0 from 100.00, else 12.50); and no step, an
\* administrator's price change included, alters an existing order or item.
C2_TotalsHold ==
  \A o \in 1..Len(orders) :
    orders[o].total =
      ItemsSum(o) + (IF ItemsSum(o) >= 10000 THEN 0 ELSE 1250)

C2_RowsKept ==
  /\ Len(orders') >= Len(orders)
  /\ Len(order_items') >= Len(order_items)
  /\ \A o \in 1..Len(orders) : orders'[o] = orders[o]
  /\ \A k \in 1..Len(order_items) : order_items'[k] = order_items[k]

C2_TotalFromCapturedPrices == []C2_TotalsHold /\ [][C2_RowsKept]_vars

\* C2 witness: an order item holds a price the product no longer has
C2_Witness ==
  \E k \in 1..Len(order_items) :
    /\ order_items[k].price # products[order_items[k].product_id].price
    /\ resp.view = "admin_update_stock"
    /\ Cardinality(ItemsOf(order_items[k].order_id)) = 2

\* C3: every product's stock is >= 0.
C3_StockNeverNegative == \A i \in 1..Len(products) : products[i].stock >= 0

\* C4: every cart entry holds an integer quantity >= 1; add_to_cart with a
\* non-positive or unparsable quantity adds exactly 1 to the entry; and
\* remove_from_cart deletes the whole entry, changing nothing when absent.
C4_Positive ==
  \A s \in Sessions : \A k \in DOMAIN CartOf(s) :
    CartOf(s)[k] \in Int /\ CartOf(s)[k] >= 1

C4_AddOne ==
  \A s \in Sessions : \A i \in 1..3 : \A q \in {"0", "-1", "abc"} :
    (resp'.view = "add_to_cart" /\ resp'.sid = s /\ add_to_cart(s, i, q)) =>
      /\ DOMAIN CartOf(s)' = DOMAIN CartOf(s) \cup {Str(i)}
      /\ CartOf(s)'[Str(i)] =
           (IF Str(i) \in DOMAIN CartOf(s) THEN CartOf(s)[Str(i)] ELSE 0) + 1
      /\ \A k \in DOMAIN CartOf(s) \ {Str(i)} : CartOf(s)'[k] = CartOf(s)[k]
      /\ \A o \in Sessions \ {s} : session'[o] = session[o]

C4_Remove ==
  \A s \in Sessions : \A i \in 1..3 :
    (resp'.view = "remove_from_cart" /\ resp'.sid = s
       /\ remove_from_cart(s, i)) =>
      /\ DOMAIN CartOf(s)' = DOMAIN CartOf(s) \ {Str(i)}
      /\ \A k \in DOMAIN CartOf(s)' : CartOf(s)'[k] = CartOf(s)[k]
      /\ \A o \in Sessions \ {s} : session'[o] = session[o]

C4_CartQuantitiesPositive ==
  []C4_Positive /\ [][C4_AddOne /\ C4_Remove]_vars

\* C4 witness: an entry accumulated to 2 stands beside one just removed
C4_Witness ==
  /\ resp.view = "remove_from_cart"
  /\ DOMAIN CartOf("s1") = {"1", "3"}
  /\ CartOf("s1")["1"] = 2

\* C5: a checkout that is turned away (no customer logged in, an empty cart,
\* or one of the three fields missing or empty) leaves orders, order items,
\* products and every session cart as they were.
C5_TurnedAway(f) ==
  \/ ~("user_id" \in DOMAIN session["s1"])
  \/ CartOf("s1") = EmptyDict
  \/ ~Present(f.customer_name)
  \/ ~Present(f.customer_address)
  \/ ~Present(f.payment_ref)

C5_RejectedCheckoutChangesNothing ==
  [][\A f \in Forms :
      (resp'.view = "checkout" /\ C5_TurnedAway(f) /\ checkout("s1", f)) =>
        /\ orders' = orders
        /\ order_items' = order_items
        /\ products' = products
        /\ \A s \in Sessions : CartOf(s)' = CartOf(s)
        /\ resp'.code = 302 /\ resp'.to \in {"login", "cart"}]_vars

\* C5 witness: a logged-in customer with a filled cart was sent back to it
C5_Witness ==
  /\ resp.view = "checkout" /\ resp.to = "cart"
  /\ "user_id" \in DOMAIN session["s1"]
  /\ CartOf("s1") # EmptyDict
  /\ orders = <<>>

\* C6: in every committed state each order stands with all its items and all
\* its stock decrements, and a checkout that fails after its order insert
\* leaves the committed store and the session cart as they were.
C6_CommittedWhole ==
  /\ \A o \in 1..Len(orders) :
       orders[o].total =
         ItemsSum(o) + (IF ItemsSum(o) >= 10000 THEN 0 ELSE 1250)
  /\ \A k \in 1..Len(order_items) : order_items[k].order_id \in 1..Len(orders)
  /\ \A i \in 1..Len(products) :
       products[i].stock =
         (IF InitStock - SoldOf(i) > 0 THEN InitStock - SoldOf(i) ELSE 0)

C6_FailureKeeps ==
  (resp'.code = 500 /\ pc[resp'.sid] # "idle" /\ pc'[resp'.sid] = "idle") =>
     /\ orders' = orders
     /\ order_items' = order_items
     /\ products' = products
     /\ \A s \in Sessions : CartOf(s)' = CartOf(s)

C6_CheckoutAtomic == []C6_CommittedWhole /\ [][C6_FailureKeeps]_vars

\* C6 witness: a two-line checkout failed at its second stock update, and the
\* store holds no order, no item and the stock it started with
C6_Witness ==
  /\ resp.code = 500 /\ resp.to = "update_stock"
  /\ tx.owner = "none"
  /\ orders = <<>> /\ order_items = <<>>
  /\ DOMAIN CartOf("s1") = {"1", "2"}
  /\ resp.sid = "s1"
  /\ \A i \in 1..Len(products) : products[i].stock = InitStock

\* C7: an admin operation takes effect only for a session whose admin flag is
\* set; the flag is set only by a successful admin login and is gone after a
\* logout or a successful customer login; a request without the flag is
\* redirected to the admin login and changes no product.
C7_Guarded ==
  /\ products' # products =>
       resp'.view \in AdminViews /\ AdminFlag(session[resp'.sid])
  /\ (resp'.view \in AdminViews /\ ~AdminFlag(session[resp'.sid])) =>
       resp'.to = "admin_login" /\ products' = products
  /\ \A s \in Sessions :
       (AdminFlag(session'[s]) /\ ~AdminFlag(session[s])) =>
          resp' = [sid |-> s, view |-> "admin_login", code |-> 302,
                   to |-> "admin_dashboard", cart_count |-> NoCount]
  /\ (resp'.view = "logout" \/ (resp'.view = "login" /\ resp'.to = "index")) =>
       ~AdminFlag(session'[resp'.sid])

C7_AdminOnlyWithFlag == [][C7_Guarded]_vars

\* C7 witness: a session that was admin, then logged in as a customer, is
\* sent to the admin login by a stock update
C7_Witness ==
  /\ resp = [sid |-> "s1", view |-> "admin_update_stock", code |-> 302,
             to |-> "admin_login", cart_count |-> NoCount]
  /\ "is_admin" \in DOMAIN session["s1"]
  /\ session["s1"]["is_admin"] = FALSE
  /\ Len(products) >= 1

\* C8: while two sessions check out the same product, no checkout of a
\* non-empty cart is turned away, no stock is negative, in the store or in
\* the open transaction, and the committed stock is
\* max(initial stock - quantities sold, 0).
C8_RaceOutcome ==
  /\ resp.view = "checkout" =>
       \/ resp.to = "index"
       \/ resp.to = "cart" /\ CartOf(resp.sid) = EmptyDict
  /\ \A i \in 1..Len(products) : products[i].stock >= 0
  /\ tx.owner # "none" =>
       \A i \in 1..Len(tx.db.products) : tx.db.products[i].stock >= 0
  /\ \A i \in 1..Len(products) :
       products[i].stock =
         (IF InitStock - SoldOf(i) > 0 THEN InitStock - SoldOf(i) ELSE 0)
  /\ \A s \in Sessions :
       pc[s] # "idle" =>
         \/ ENABLED CheckoutStep(s)
         \/ tx.owner \notin {"none", s} /\ ENABLED CheckoutStep(tx.owner)

\* C8 witness: both orders are committed and more was sold than was in stock
C8_Witness ==
  /\ Len(orders) = 2
  /\ tx.owner = "none"
  /\ SoldOf(1) > InitStock
  /\ products[1].stock = 0
  /\ \A o \in 1..2 : ItemsOf(o) # {}

\* C9: every order has at least one order item.
C9_EveryOrderHasItems == \A o \in 1..Len(orders) : ItemsOf(o) # {}

\* C10: the cart page renders, and the cart_count it is given is the sum of
\* the quantities in the session cart.
C10_CartCountIsSum ==
  resp.view = "cart" =>
    resp.code = 200 /\ resp.cart_count = CartQtySum(CartOf(resp.sid))

====
